---- MODULE Spec2Model ----
(***************************************************************************)
(* gentle-pong: synthesis of short notification sounds (synth.py), the     *)
(* DSP primitives they are piped through (dsp.py) and the single / chord / *)
(* sequence mixers with the fixed processing chain (generate.py).          *)
(*                                                                         *)
(* Samples are Python floats.  The model keeps the shape of binary         *)
(* floating point at reduced width: a sample is an integer number of       *)
(* units of 2^-Frac, representable when it has at most Prec significant    *)
(* bits, and every arithmetic operation rounds to the nearest              *)
(* representable value, ties to even.  Sample rates are scaled down from   *)
(* 44100 so that whole buffers fit in a state; every frame count is        *)
(* computed from the sample rate by the code's own formula.                *)
(***************************************************************************)
EXTENDS Integers, Sequences, FiniteSets, TLC

VARIABLES pc, buf, log

vars == <<pc, buf, log>>

(* ------------------------------ bounds -------------------------------- *)

\* significant bits of a modelled float
Prec == 4
\* fractional bits: 1.0 is 2^Frac units, the smallest positive value 1 unit
Frac == 14
\* longest buffer handed to a DSP primitive on its own
MaxLen == 3
\* sample rate of the sound pack: SR = 44100 in generate.py, scaled by 100
SR == 441

One == 2 ^ Frac

(* --------------------------- float arithmetic ------------------------- *)

Abs(x) == IF x < 0 THEN -x ELSE x

Min(a, b) == IF a <= b THEN a ELSE b

Max(a, b) == IF a >= b THEN a ELSE b

\* spacing of the representable values around magnitude q
RECURSIVE Ulp(_)
Ulp(q) == IF q < 2 ^ Prec THEN 1 ELSE 2 * Ulp(q \div 2)

\* quotient q with doubled remainder r2 of a division by d, to the nearest
\* integer, ties to even
TieToEven(q, r2, d) ==
    IF r2 < d THEN q
    ELSE IF r2 > d THEN q + 1
    ELSE q + (q % 2)

\* a / d (a >= 0, d > 0) rounded to the nearest integer, ties to even
RoundHalfEven(a, d) == TieToEven(a \div d, 2 * (a % d), d)

\* a / den rounded to a multiple of the spacing s
RoundTo(a, den, s) == s * RoundHalfEven(a, den * s)

\* the float nearest to num / den units (den > 0)
Fl(num, den) ==
    IF num < 0
    THEN -RoundTo(-num, den, Ulp((-num) \div den))
    ELSE RoundTo(num, den, Ulp(num \div den))

\* the largest power of two dividing a (a > 0)
RECURSIVE Pow2Part(_)
Pow2Part(a) == IF a % 2 = 1 THEN 1 ELSE 2 * Pow2Part(a \div 2)

\* a + b, rounded
FlAdd(a, b) == Fl(a + b, 1)

\* a * b with b = (b / pb) * pb, pb a power of two below One
MulBy(a, b, pb) == Fl(a * (b \div pb), One \div pb)

\* a * b, rounded, b a float; the power of two in b is cancelled against One
\* before the product is formed, so that no intermediate leaves 32 bits
FlMul(a, b) ==
    IF b % One = 0 THEN Fl(a * (b \div One), 1)
    ELSE MulBy(a, b, Pow2Part(Abs(b)))

\* a / b with b = (b / pb) * pb > 0, pb a power of two
DivBy(a, b, pb) ==
    IF pb <= One
    THEN Fl(a * (One \div pb), b \div pb)
    ELSE Fl(a, (b \div pb) * (pb \div One))

\* a / b (b # 0), rounded, b a float
FlDiv(a, b) ==
    IF b < 0 THEN DivBy(-a, -b, Pow2Part(-b)) ELSE DivBy(a, b, Pow2Part(b))

\* the next float above p (p >= 0)
NextUp(p) == p + Ulp(p)

\* the float nearest to the number n / d (n >= 0, d > 0); a numerator too
\* wide to be scaled by One is halved together with the denominator
RECURSIVE FlRatio(_, _)
FlRatio(n, d) ==
    IF n < 2 ^ (30 - Frac) THEN Fl(n * One, d) ELSE FlRatio(n \div 2, d \div 2)

\* the decimal c / 100 as a float
Hundredths(c) == Fl(c * One, 100)

(* ------------------------------ outcomes ------------------------------ *)

Ok(seq) == [out |-> seq, err |-> "none"]

Raise(e) == [out |-> <<>>, err |-> e]

\* max() of a non-empty sequence
MaxOf(s) ==
    LET S == {s[i] : i \in 1..Len(s)}
    IN  CHOOSE m \in S : \A x \in S : x <= m

AbsOf(s) == [i \in 1..Len(s) |-> Abs(s[i])]

(* ------------------------------- dsp.py ------------------------------- *)

\* alpha = dt / (rc + dt) with rc = 1 / (2 pi cutoff_hz), dt = 1 / sr, that
\* is 2 pi cutoff_hz / (sr + 2 pi cutoff_hz), with 2 pi taken as 710/113;
\* rounded once
Alpha(cutoff_hz, sr) ==
    LET n == 710 * cutoff_hz
        d == 113 * sr + 710 * cutoff_hz
    IN  IF (n < 0) = (d < 0) THEN FlRatio(Abs(n), Abs(d)) ELSE -FlRatio(Abs(n), Abs(d))

\* one pole: out[0] = buf[0] * alpha;
\* out[i] = out[i-1] + alpha * (buf[i] - out[i-1]), for the indices up to n
RECURSIVE PoleUpTo(_, _, _, _)
PoleUpTo(b, alpha, out, n) ==
    IF Len(out) >= n THEN out
    ELSE LET i == Len(out) + 1
         IN  PoleUpTo(b, alpha,
                      Append(out, IF i = 1 THEN FlMul(b[1], alpha)
                                  ELSE FlAdd(out[i - 1],
                                             FlMul(alpha, FlAdd(b[i], -out[i - 1])))),
                      n)

\* the loop over a whole buffer, taken 32 indices at a time
RECURSIVE Pole(_, _, _)
Pole(b, alpha, out) ==
    IF Len(out) = Len(b) THEN out
    ELSE Pole(b, alpha, PoleUpTo(b, alpha, out, Min(Len(b), Len(out) + 32)))

RECURSIVE Cascade(_, _, _)
Cascade(b, alpha, poles) ==
    IF poles <= 0 THEN b ELSE Cascade(Pole(b, alpha, <<>>), alpha, poles - 1)

\* lowpass(samples, cutoff_hz, sr, poles): 1.0 / (2 pi * 0) and 1.0 / 0 raise
\* ZeroDivisionError, out[0] of an empty buffer raises IndexError; negative
\* arguments are computed with
lowpass(s, cutoff_hz, sr, poles) ==
    IF cutoff_hz = 0 \/ sr = 0 \/ 113 * sr + 710 * cutoff_hz = 0
    THEN Raise("ZeroDivisionError")
    ELSE IF poles >= 1 /\ Len(s) = 0 THEN Raise("IndexError")
    ELSE Ok(Cascade(s, Alpha(cutoff_hz, sr), poles))

\* normalize without the test mx > peak: every buffer is scaled to the peak
normalize_always(s, peak) ==
    IF Len(s) = 0 THEN Raise("ValueError")
    ELSE Ok([i \in 1..Len(s) |->
               FlDiv(FlMul(s[i], peak),
                     IF MaxOf(AbsOf(s)) = 0 THEN One ELSE MaxOf(AbsOf(s)))])

\* normalize(samples, peak): max() of an empty generator raises ValueError;
\* `or 1.0` replaces a peak of zero
normalize(s, peak) ==
    IF Len(s) = 0 THEN Raise("ValueError")
    ELSE LET m  == MaxOf(AbsOf(s))
             mx == IF m = 0 THEN One ELSE m
         IN  IF mx > peak
             THEN Ok([i \in 1..Len(s) |-> FlDiv(FlMul(s[i], peak), mx)])
             ELSE Ok(s)

\* the silence test on the last sample alone instead of the last chunk
SilentLastSample(out, threshold, chunk) == Abs(out[Len(out)]) < threshold

\* all(abs(s) < threshold for s in out[-chunk:]), chunk >= 1
SilentTail(out, threshold, chunk) ==
    \A i \in (Len(out) - chunk + 1)..Len(out) : Abs(out[i]) < threshold

\* trim_silence(samples, threshold, chunk), chunk >= 1
RECURSIVE TrimLoop(_, _, _)
TrimLoop(out, threshold, chunk) ==
    IF Len(out) > chunk /\ SilentTail(out, threshold, chunk)
    THEN TrimLoop(SubSeq(out, 1, Len(out) - chunk), threshold, chunk)
    ELSE out

trim_silence(s, threshold, chunk) == Ok(TrimLoop(s, threshold, chunk))

\* 0.5 * (1.0 + cos(pi * i / F)) for 0 <= i <= F, rounded once.  The cosine
\* is Bhaskara's rational approximation cos(pi*t) ~ (1 - 4t^2) / (1 + t^2)
\* on [0, 1/2], reflected on [1/2, 1]: it is exact at t = 0, 1/2 and 1 and,
\* like the cosine, reaches -1 at t = 1 only.
HalfCos(i, F) ==
    IF 2 * i <= F
    THEN Fl((2 * F * F - 3 * i * i) * One, 2 * (F * F + i * i))
    ELSE Fl(5 * (F - i) * (F - i) * One, 2 * (F * F + (F - i) * (F - i)))

\* fade_out with the padding put on the tail only
fade_out_tail_pad(s, fade_ms, sr) ==
    Ok([j \in 1..Len(s) |->
          IF j > Len(s) - Min((sr * fade_ms) \div 1000, Len(s))
          THEN FlMul(s[j], HalfCos(j - 1 - (Len(s) - Min((sr * fade_ms) \div 1000, Len(s))),
                                   Min((sr * fade_ms) \div 1000, Len(s))))
          ELSE s[j]]
       \o [i \in 1..(sr \div 20) |-> 0])

\* fade_out(samples, fade_ms, sr), sr > 0: the last fade_frames samples are
\* scaled by the half cosine of t = i / fade_frames, then 50 ms of zeros is
\* put on both ends
fade_out(s, fade_ms, sr) ==
    LET pad         == [i \in 1..(sr \div 20) |-> 0]
        fade_frames == Min((sr * fade_ms) \div 1000, Len(s))
        start       == Len(s) - fade_frames
        out         == [j \in 1..Len(s) |->
                          IF j > start
                          THEN FlMul(s[j], HalfCos(j - 1 - start, fade_frames))
                          ELSE s[j]]
    IN  Ok(pad \o out \o pad)

\* the attenuations measured against the last delay instead of the first
RefDelayLast(delays) == delays[Len(delays)]

\* the delay the attenuations are measured against: delays_ms[0]
RefDelay(delays) == delays[1]

\* decay ** (d_ms / delays_ms[0]) for decay = num/den.  The power is exact at
\* whole exponents and interpolated linearly between them.
Atten(decay, d_ms, d0) ==
    LET q    == d_ms \div d0
        r    == d_ms % d0
        base == Fl(decay.num ^ q * One, decay.den ^ q)
        frac == Fl((decay.den * d0 - r * (decay.den - decay.num)) * One, decay.den * d0)
    IN  FlMul(base, frac)

\* d = int(sr * d_ms / 1000)
DelayFrames(sr, d_ms) == (sr * d_ms) \div 1000

\* for i, s in enumerate(samples): out[i + d] += s * atten, d >= 0.  One
\* pass writes each index at most once; a write past the end of out raises
\* IndexError
AddTap(out, s, d, atten) ==
    IF Len(s) + d > Len(out) /\ Len(s) > 0 THEN Raise("IndexError")
    ELSE Ok([j \in 1..Len(out) |->
               IF j - d >= 1 /\ j - d <= Len(s)
               THEN FlAdd(out[j], FlMul(s[j - d], atten))
               ELSE out[j]])

\* for d_ms in delays_ms: ...
RECURSIVE AddTaps(_, _, _, _, _, _)
AddTaps(out, s, sr, decay, delays, k) ==
    IF k > Len(delays) THEN Ok(out)
    ELSE IF RefDelay(delays) = 0 THEN Raise("ZeroDivisionError")
    ELSE LET r == AddTap(out, s, DelayFrames(sr, delays[k]),
                         Atten(decay, delays[k], RefDelay(delays)))
         IN  IF r.err # "none" THEN r
             ELSE AddTaps(r.out, s, sr, decay, delays, k + 1)

\* the room for the echoes taken from the first delay instead of the longest
FirstDelayFrames(sr, delays) == (sr * delays[1]) \div 1000

\* max_delay = int(sr * max(delays_ms) / 1000)
MaxDelayFrames(sr, delays) == (sr * MaxOf(delays)) \div 1000

\* reverb(samples, sr, decay, delays_ms, tail_s), with tail_s in tenths of a
\* second and delays_ms >= 0: the dry signal, then one pass per tap
reverb(s, sr, decay, delays, tail10) ==
    IF Len(delays) = 0 THEN Raise("ValueError")
    ELSE LET n   == Len(s) + MaxDelayFrames(sr, delays) + (sr * tail10) \div 10
             dry == [j \in 1..n |-> IF j <= Len(s) THEN s[j] ELSE 0]
         IN  AddTaps(dry, s, sr, decay, delays, 1)

\* quantization with the asymmetric scale 32768 on the negative side
Int16OfAsymmetric(x) ==
    IF x < 0
    THEN -((Abs(Max(-One, x)) * 32768) \div One)
    ELSE (Min(One, x) * 32767) \div One

\* int(max(-1.0, min(1.0, s)) * 32767): int() truncates toward zero.  The
\* product of a float of at most 38 significant bits by 32767 is exact.
Int16Of(x) ==
    LET c == Max(-One, Min(One, x))
        q == (Abs(c) * 32767) \div One
    IN  IF c < 0 THEN -q ELSE q

to_int16(s) == Ok([i \in 1..Len(s) |-> Int16Of(s[i])])

(* ------------------------------ synth.py ------------------------------ *)

\* Bhaskara's approximation of sin(pi x) on [0, 1/2],
\* 16 u / (5 - 4 u) with u = x (1 - x), evaluated in floats
Parabola(x) == FlMul(x, FlAdd(One, -x))

Bhaskara(u) == FlDiv(16 * u, FlAdd(5 * One, -(4 * u)))

\* sin(pi * P / Q) for integers P >= 0, Q > 0: the argument is reduced
\* exactly to [0, 1/2] half turns, then approximated.  It is zero exactly
\* when P / Q is a whole number.
SinHalfTurns(P, Q) ==
    IF P % (2 * Q) >= Q
    THEN -Bhaskara(Parabola(FlRatio(Min(P % Q, Q - (P % Q)), Q)))
    ELSE Bhaskara(Parabola(FlRatio(Min(P % Q, Q - (P % Q)), Q)))

Square(h) == FlMul(h, h)

\* exp(-x) for a float x >= 0, as 1 / (1 + x/2 + x^2/8)^2, evaluated in
\* floats: 1 at x = 0, positive and decreasing
ExpNeg(x) == FlDiv(One, Square(FlAdd(FlAdd(One, x \div 2), Square(x) \div 8)))

\* frames = int(sr * duration_ms / 1000)
Frames(sr, duration_ms) == (sr * duration_ms) \div 1000

\* t = i / sr
TimeOf(i, sr) == Fl(i * One, sr)

\* the index at which the release starts: int(frames * 0.85)
FadeStart(frames) == (frames * 85) \div 100

\* _note_fadeout(i, frames)
NoteFadeout(i, frames) ==
    IF i >= FadeStart(frames)
    THEN HalfCos(i - FadeStart(frames), frames - FadeStart(frames))
    ELSE One

\* amp * sin(2 pi freq ratio t) * exp(-dr t) at t = i / sr, for the partial
\* p = <<100 ratio, 100 amp, 10 dr>>
Partial(p, freq, i, sr) ==
    FlMul(FlMul(Hundredths(p[2]), SinHalfTurns(2 * freq * p[1] * i, 100 * sr)),
          ExpNeg(FlMul(Fl(p[3] * One, 10), TimeOf(i, sr))))

\* a term of bowl's sum is multiplied by mod; glockenspiel and marimba have
\* no such factor (mod = One)
Modulated(term, mod) == IF mod = One THEN term ELSE FlMul(term, mod)

\* s += ... over the partials
RECURSIVE PartialSum(_, _, _, _, _, _, _)
PartialSum(s, partials, k, freq, i, sr, mod) ==
    IF k > Len(partials) THEN s
    ELSE PartialSum(FlAdd(s, Modulated(Partial(partials[k], freq, i, sr), mod)),
                    partials, k + 1, freq, i, sr, mod)

\* if i < n: s *= i / n
RampUp(s, i, n) == IF i < n THEN FlMul(s, FlRatio(i, n)) ELSE s

\* the body shared by glockenspiel and marimba: linear attack over
\* attack_frames, volume, release
Struck(partials, attack_frames, freq, duration_ms, volume, sr) ==
    [j \in 1..Frames(sr, duration_ms) |->
        FlMul(FlMul(RampUp(PartialSum(0, partials, 1, freq, j - 1, sr, One),
                           j - 1, attack_frames),
                    volume),
              NoteFadeout(j - 1, Frames(sr, duration_ms)))]

glockenspiel(freq, duration_ms, volume, sr) ==
    Struck(<< <<100, 100, 40>>, <<276, 45, 60>>, <<540, 20, 100>>, <<893, 8, 160>> >>,
           (sr * 2) \div 1000, freq, duration_ms, volume, sr)

marimba(freq, duration_ms, volume, sr) ==
    Struck(<< <<100, 100, 35>>, <<400, 30, 70>>, <<920, 8, 140>> >>,
           (sr * 4) \div 1000, freq, duration_ms, volume, sr)

\* if i > frames - n: s *= (frames - i) / n
RampDown(s, i, frames, n) ==
    IF i > frames - n THEN FlMul(s, FlRatio(frames - i, n)) ELSE s

\* sine_tone(freq, duration_ms, volume, fade_ms, sr): linear fades in and out
sine_tone(freq, duration_ms, volume, fade_ms, sr) ==
    [j \in 1..Frames(sr, duration_ms) |->
        RampDown(RampUp(FlMul(SinHalfTurns(2 * freq * (j - 1), sr), volume),
                        j - 1, (sr * fade_ms) \div 1000),
                 j - 1, Frames(sr, duration_ms), (sr * fade_ms) \div 1000)]

\* if i < attack_frames: env *= 0.5 * (1.0 - cos(pi * i / attack_frames))
CosineAttack(env, i, attack_frames) ==
    IF i < attack_frames
    THEN FlMul(env, HalfCos(attack_frames - i, attack_frames))
    ELSE env

\* if i >= fade_start: env *= 0.5 * (1.0 + cos(pi * (i - fade_start) / fade_len))
CosineRelease(env, i, fade_start, frames) ==
    IF i >= fade_start
    THEN FlMul(env, HalfCos(i - fade_start, frames - fade_start))
    ELSE env

\* the two voices detuned by 1.5 Hz and the quiet octave of ambient
AmbientVoices(freq, i, sr) ==
    FlAdd(FlAdd(FlAdd(0, FlMul(One \div 2, SinHalfTurns((2 * freq - 3) * i, sr))),
                FlMul(One \div 2, SinHalfTurns((2 * freq + 3) * i, sr))),
          FlMul(Hundredths(12), SinHalfTurns(4 * freq * i, sr)))

\* ambient(freq, duration_ms, volume, sr): cosine attack over 120 ms, decay
\* rate 0.5, its own copy of the release
ambient(freq, duration_ms, volume, sr) ==
    [j \in 1..Frames(sr, duration_ms) |->
        FlMul(FlMul(AmbientVoices(freq, j - 1, sr),
                    CosineRelease(CosineAttack(ExpNeg(FlMul(One \div 2, TimeOf(j - 1, sr))),
                                               j - 1, (sr * 120) \div 1000),
                                  j - 1, FadeStart(Frames(sr, duration_ms)),
                                  Frames(sr, duration_ms))),
              volume)]

\* mod = 1.0 + 0.06 * sin(2 pi 4.1 t)
Wobble(i, sr) == FlAdd(One, FlMul(Hundredths(6), SinHalfTurns(82 * i, 10 * sr)))

\* bowl(freq, duration_ms, volume, sr): cosine attack over 80 ms, partials
\* wobbling at 4.1 Hz, release
bowl(freq, duration_ms, volume, sr) ==
    [j \in 1..Frames(sr, duration_ms) |->
        FlMul(FlMul(CosineAttack(PartialSum(0, << <<100, 100, 12>>, <<200, 35, 18>>,
                                                  <<301, 15, 25>>, <<498, 6, 35>> >>,
                                            1, freq, j - 1, sr, Wobble(j - 1, sr)),
                                 j - 1, (sr * 80) \div 1000),
                    volume),
              NoteFadeout(j - 1, Frames(sr, duration_ms)))]

\* SYNTHS[name](freq, duration_ms, volume, sr=SR); sine_tone keeps fade_ms=60
Synth(name, freq, duration_ms, volume, sr) ==
    CASE name = "glockenspiel" -> glockenspiel(freq, duration_ms, volume, sr)
      [] name = "sine"         -> sine_tone(freq, duration_ms, volume, 60, sr)
      [] name = "marimba"      -> marimba(freq, duration_ms, volume, sr)
      [] name = "ambient"      -> ambient(freq, duration_ms, volume, sr)
      [] name = "bowl"         -> bowl(freq, duration_ms, volume, sr)

Instruments == {"glockenspiel", "sine", "marimba", "ambient", "bowl"}

(* ------------------------ the primitives on their own ----------------- *)

SampleValues == {0, 1, -2, One \div 2, -((3 * One) \div 2), (11 * One) \div 8}

Buffers == UNION {[1..n -> SampleValues] : n \in 0..MaxLen}

\* peak as written in a call: 0.9 (the default), 0.5, 1.0
Peaks == {Fl(9 * One, 10), One \div 2, One}

\* threshold=0.0001 (the default) and a coarse one
Thresholds == {Fl(One, 10000), One \div 4}

Chunks == {1, 2}

\* a call is logged with its input, arguments and outcome; a result becomes
\* the buffer in hand, an exception leaves it
Step(fn, input, args, r, next) ==
    /\ log' = Append(log, [fn |-> fn, input |-> input, args |-> args,
                           out |-> r.out, err |-> r.err])
    /\ buf' = IF r.err = "none" THEN r.out ELSE buf
    /\ pc' = IF r.err = "none" THEN next ELSE "raised"

Called(fn, input, args, r) == Step(fn, input, args, r, "returned")

CallNormalize ==
    /\ pc = "ready"
    /\ \E peak \in Peaks : Called("normalize", buf, [peak |-> peak], normalize(buf, peak))

CallTrimSilence ==
    /\ pc = "ready"
    /\ \E th \in Thresholds, ch \in Chunks :
          Called("trim_silence", buf, [threshold |-> th, chunk |-> ch],
                 trim_silence(buf, th, ch))

\* trim_silence applied to its own result, with the same arguments
CallTrimAgain ==
    /\ pc = "returned"
    /\ Len(log) = 1
    /\ log[1].fn = "trim_silence"
    /\ Called("trim_silence", buf, log[1].args,
              trim_silence(buf, log[1].args.threshold, log[1].args.chunk))

CallToInt16 ==
    /\ pc = "ready"
    /\ Called("to_int16", buf, [none |-> 0], to_int16(buf))

FadeTimes == {0, 100, 200}

SampleRates == {20, 40}

CallFadeOut ==
    /\ pc = "ready"
    /\ \E fade_ms \in FadeTimes, sr \in SampleRates :
          Called("fade_out", buf, [fade_ms |-> fade_ms, sr |-> sr], fade_out(buf, fade_ms, sr))

\* decay=0.35 (the default) and REVERB_DECAY = 0.5
Decays == {[num |-> 7, den |-> 20], [num |-> 1, den |-> 2]}

\* three taps of the default delays_ms
DelayList == <<53, 89, 131>>

\* tail_s = 1.5 (the default) and no tail
Tails == {0, 15}

ReverbRates == {20}

Reorderings(s) ==
    {[i \in 1..Len(s) |-> s[p[i]]] :
        p \in {f \in [1..Len(s) -> 1..Len(s)] : \A i, j \in 1..Len(s) : f[i] = f[j] => i = j}}

CallReverb ==
    /\ pc = "ready"
    /\ \E decay \in Decays, tail10 \in Tails, sr \in ReverbRates :
          Called("reverb", buf, [sr |-> sr, decay |-> decay, delays |-> DelayList, tail10 |-> tail10],
                 reverb(buf, sr, decay, DelayList, tail10))

\* reverb of the same input with the taps in another order
CallReverbPermuted ==
    /\ pc = "returned"
    /\ Len(log) = 1
    /\ log[1].fn = "reverb"
    /\ \E delays \in Reorderings(log[1].args.delays) \ {log[1].args.delays} :
          LET a == log[1].args
          IN  Called("reverb", log[1].input, [a EXCEPT !.delays = delays],
                     reverb(log[1].input, a.sr, a.decay, delays, a.tail10))

Init ==
    /\ pc = "ready"
    /\ buf \in Buffers
    /\ log = <<>>

Next ==
    \/ CallNormalize
    \/ CallTrimSilence
    \/ CallTrimAgain
    \/ CallToInt16
    \/ CallFadeOut

Spec == Init /\ [][Next]_vars

(* ---------------------------- reverb on its own ------------------------ *)

EchoValues == {0, One \div 2, -((3 * One) \div 2), (11 * One) \div 8}

InitReverb ==
    /\ pc = "ready"
    /\ buf \in UNION {[1..n -> EchoValues] : n \in 0..MaxLen}
    /\ log = <<>>

NextReverb ==
    \/ CallReverb
    \/ CallReverbPermuted

SpecReverb == InitReverb /\ [][NextReverb]_vars

(* ------------------- one note, then the lowpass filter ----------------- *)

NoteRates == {20, 441}

NoteFreqs == {262, 440}

NoteDurations == {0, 2, 50, 200, 600}

\* volume=0.3, in hundredths
NoteVolumes == {30}

CallSynth ==
    /\ pc = "ready"
    /\ \E name \in Instruments, freq \in NoteFreqs, duration_ms \in NoteDurations,
          vol \in NoteVolumes, sr \in NoteRates :
          Called(name, <<>>,
                 [freq |-> freq, duration_ms |-> duration_ms, volume |-> vol, sr |-> sr],
                 Ok(Synth(name, freq, duration_ms, Hundredths(vol), sr)))

\* cutoff_hz: LOWPASS_HZ, zero, negative
Cutoffs == {1800, 0, -1800}

\* the note is filtered at its own sample rate, or at a sample rate of zero
CallLowpass ==
    /\ pc = "returned"
    /\ Len(log) = 1
    /\ log[1].fn \in Instruments
    /\ \E cutoff_hz \in Cutoffs, sr \in {log[1].args.sr, 0}, poles \in {3} :
          Called("lowpass", buf, [cutoff_hz |-> cutoff_hz, sr |-> sr, poles |-> poles],
                 lowpass(buf, cutoff_hz, sr, poles))

InitSynth ==
    /\ pc = "ready"
    /\ buf = <<>>
    /\ log = <<>>

NextSynth ==
    \/ CallSynth
    \/ CallLowpass

SpecSynth == InitSynth /\ [][NextSynth]_vars

\* C1: for each of the five instruments and every frequency, volume and
\* duration giving at least one frame, the last sample of the note is
\* exactly 0.
C1_NoteEndsAtZero ==
    \A k \in DOMAIN log :
        (log[k].fn \in Instruments /\ Len(log[k].out) >= 1)
            => log[k].out[Len(log[k].out)] = 0

\* C5: a non-positive sample rate or cutoff frequency given to lowpass, and
\* a note duration of zero frames given to a synth, are rejected with an
\* InvalidParameter error, and no buffer is returned.
C5_InvalidParameterRejected ==
    \A k \in DOMAIN log :
        LET e == log[k]
        IN  /\ (e.fn \in Instruments /\ Frames(e.args.sr, e.args.duration_ms) = 0)
                  => e.err = "InvalidParameter"
            /\ (e.fn = "lowpass" /\ (e.args.cutoff_hz <= 0 \/ e.args.sr <= 0))
                  => e.err = "InvalidParameter"

(* ----------------------------- generate.py ---------------------------- *)

LOWPASS_HZ == 1800

LOWPASS_POLES == 3

REVERB_DECAY == [num |-> 1, den |-> 2]

REVERB_DELAYS == <<41, 89, 149, 211, 283, 367, 449>>

\* mixed[i + offset] += s for the samples of one voice, under the guard
\* i + offset < len(mixed)
AddVoice(mixed, voice, offset) ==
    [j \in 1..Len(mixed) |->
        IF j - offset >= 1 /\ j - offset <= Len(voice)
        THEN FlAdd(mixed[j], voice[j - offset])
        ELSE mixed[j]]

\* the samples of a voice that fail the guard i + offset < len(mixed)
Dropped(len, voice, offset) ==
    Cardinality({i \in 0..(Len(voice) - 1) : ~(i + offset < len)})

RECURSIVE MixVoices(_, _, _, _)
MixVoices(mixed, voices, k, stride) ==
    IF k > Len(voices) THEN mixed
    ELSE MixVoices(AddVoice(mixed, voices[k], (k - 1) * stride), voices, k + 1, stride)

RECURSIVE DroppedIn(_, _, _, _)
DroppedIn(len, voices, k, stride) ==
    IF k > Len(voices) THEN 0
    ELSE Dropped(len, voices[k], (k - 1) * stride) + DroppedIn(len, voices, k + 1, stride)

Zeros(n) == [j \in 1..n |-> 0]

\* what a mixer hands to process(), with the lengths of its voices
Mixed(fn, args, voices, stride, total) ==
    /\ log' = Append(log, [fn |-> fn, input |-> <<>>, args |-> args,
                           out |-> MixVoices(Zeros(total), voices, 1, stride),
                           err |-> "none",
                           voices |-> [k \in 1..Len(voices) |-> Len(voices[k])],
                           stride |-> stride,
                           dropped |-> DroppedIn(total, voices, 1, stride)])
    /\ buf' = MixVoices(Zeros(total), voices, 1, stride)
    /\ pc' = "mixed"

\* gen_single(filename, synth_fn, freq, duration_ms, volume)
gen_single(name, freq, duration_ms, volume) ==
    LET samples == Synth(name, freq, duration_ms, Hundredths(volume), SR)
    IN  Mixed("gen_single",
              [synth |-> name, freq |-> freq, duration_ms |-> duration_ms, volume |-> volume],
              <<samples>>, 0, Len(samples))

\* gen_chord(filename, synth_fn, freqs, duration_ms, volume): every voice at
\* volume / len(freqs), summed from index 0 into max_len zeros
gen_chord(name, freqs, duration_ms, volume) ==
    LET per_voice == Fl(Hundredths(volume), Len(freqs))
        voices    == [k \in 1..Len(freqs) |-> Synth(name, freqs[k], duration_ms, per_voice, SR)]
        max_len   == MaxOf([k \in 1..Len(voices) |-> Len(voices[k])])
    IN  Mixed("gen_chord",
              [synth |-> name, freqs |-> freqs, duration_ms |-> duration_ms, volume |-> volume],
              voices, 0, max_len)

\* the room for one note only, whatever the number of notes
SequenceTotalOneNote(stride, n, last_len) == last_len + SR \div 2

\* total = stride * (len(notes) - 1) + len(note_samples[-1]) + int(SR * 0.5)
SequenceTotal(stride, n, last_len) == stride * (n - 1) + last_len + SR \div 2

\* gen_sequence(filename, synth_fn, notes, gap_ms, duration_ms, volume)
gen_sequence(name, notes, gap_ms, duration_ms, volume) ==
    LET gap_frames   == (SR * gap_ms) \div 1000
        note_samples == [k \in 1..Len(notes) |->
                           Synth(name, notes[k], duration_ms, Hundredths(volume), SR)]
        stride       == Max(Len(note_samples[1]) \div 3, 1) + gap_frames
        total        == SequenceTotal(stride, Len(notes), Len(note_samples[Len(notes)]))
    IN  Mixed("gen_sequence",
              [synth |-> name, notes |-> notes, gap_ms |-> gap_ms,
               duration_ms |-> duration_ms, volume |-> volume],
              note_samples, stride, total)

\* sounds in the manner of the SOUNDS table; a duration of 2 ms gives no frame
PackDurations == {2, 150}

GenSingle ==
    /\ pc = "start"
    /\ \E name \in Instruments, freq \in {392}, d \in PackDurations, volume \in {15, 120} :
          gen_single(name, freq, d, volume)

GenChord ==
    /\ pc = "start"
    /\ \E name \in Instruments, freqs \in {<<262, 330, 392>>, <<131, 196>>},
          d \in PackDurations :
          gen_chord(name, freqs, d, 28)

GenSequence ==
    /\ pc = "start"
    /\ \E name \in Instruments, notes \in {<<262>>, <<330, 440>>, <<392, 392, 392, 440>>},
          gap_ms \in {0, 60, 200}, d \in PackDurations :
          gen_sequence(name, notes, gap_ms, d, 22)

\* process(samples), one stage at a time:
\* s = lowpass(samples, cutoff_hz=LOWPASS_HZ, sr=SR, poles=LOWPASS_POLES)
ProcessLowpass ==
    /\ pc = "mixed"
    /\ Step("lowpass", buf, [cutoff_hz |-> LOWPASS_HZ, sr |-> SR, poles |-> LOWPASS_POLES],
            lowpass(buf, LOWPASS_HZ, SR, LOWPASS_POLES), "lowpassed")

\* s = reverb(s, sr=SR, decay=REVERB_DECAY, delays_ms=REVERB_DELAYS)
ProcessReverb ==
    /\ pc = "lowpassed"
    /\ Step("reverb", buf,
            [sr |-> SR, decay |-> REVERB_DECAY, delays |-> REVERB_DELAYS, tail10 |-> 15],
            reverb(buf, SR, REVERB_DECAY, REVERB_DELAYS, 15), "reverbed")

\* s = trim_silence(s), threshold=0.0001, chunk=200
ProcessTrim ==
    /\ pc = "reverbed"
    /\ Step("trim_silence", buf, [threshold |-> Fl(One, 10000), chunk |-> 200],
            trim_silence(buf, Fl(One, 10000), 200), "trimmed")

\* s = fade_out(s, fade_ms=200, sr=SR)
ProcessFade ==
    /\ pc = "trimmed"
    /\ Step("fade_out", buf, [fade_ms |-> 200, sr |-> SR], fade_out(buf, 200, SR), "faded")

\* s = normalize(s, peak=0.9)
ProcessNormalize ==
    /\ pc = "faded"
    /\ Step("normalize", buf, [peak |-> Fl(9 * One, 10)],
            normalize(buf, Fl(9 * One, 10)), "normalized")

\* return to_int16(s)
ProcessToInt16 ==
    /\ pc = "normalized"
    /\ Step("to_int16", buf, [none |-> 0], to_int16(buf), "done")

InitPack ==
    /\ pc = "start"
    /\ buf = <<>>
    /\ log = <<>>

NextPack ==
    \/ GenSingle
    \/ GenChord
    \/ GenSequence
    \/ ProcessLowpass
    \/ ProcessReverb
    \/ ProcessTrim
    \/ ProcessFade
    \/ ProcessNormalize
    \/ ProcessToInt16

SpecPack == InitPack /\ [][NextPack]_vars

C7_MixingKeepsEveryVoice ==
    \A k \in DOMAIN log :
        LET e == log[k]
        IN  /\ e.fn = "gen_chord" =>
                  /\ Len(e.out) = MaxOf(e.voices)
                  /\ \A v \in 1..Len(e.voices) : e.voices[v] <= Len(e.out)
                  /\ e.dropped = 0
            /\ e.fn = "gen_sequence" =>
                  /\ e.stride = Max(e.voices[1] \div 3, 1) + (SR * e.args.gap_ms) \div 1000
                  /\ \A v \in 1..Len(e.voices) :
                        (v - 1) * e.stride + e.voices[v] <= Len(e.out)
                  /\ e.dropped = 0

\* C7 witness: a sequence of four overlapping notes with a gap, and a chord
\* of three voices, each with frames.
C7_Witness ==
    \E k \in DOMAIN log :
        /\ log[k].fn = "gen_sequence"
        /\ Len(log[k].voices) = 4
        /\ log[k].args.gap_ms > 0
        /\ log[k].voices[1] > log[k].stride
        /\ \E j \in 1..Len(log[k].out) : log[k].out[j] # 0

(* ----------------- properties of the primitives (Spec) ---------------- *)

PeakOf(s) == MaxOf(AbsOf(s))

IsPrefix(a, b) == Len(a) <= Len(b) /\ \A i \in 1..Len(a) : a[i] = b[i]

NormalizeCase(e) == e.fn = "normalize" /\ Len(e.input) > 0 /\ e.args.peak > 0

\* C2, as stated: normalize of a non-empty buffer with peak > 0 returns a
\* buffer of the same length whose largest magnitude is at most peak, and
\* returns the samples unchanged when their largest magnitude is already at
\* most peak (the all-zero buffer included).
C2_NormalizeAtMostPeak ==
    \A k \in DOMAIN log : NormalizeCase(log[k]) =>
        /\ log[k].err = "none"
        /\ Len(log[k].out) = Len(log[k].input)
        /\ PeakOf(log[k].out) <= log[k].args.peak
        /\ PeakOf(log[k].input) <= log[k].args.peak => log[k].out = log[k].input

\* C2, amended: the largest magnitude of the result is at most the next
\* float above peak (s * peak / mx rounds twice); the rest as stated.
C2_NormalizeWithinOneUlp ==
    \A k \in DOMAIN log : NormalizeCase(log[k]) =>
        /\ log[k].err = "none"
        /\ Len(log[k].out) = Len(log[k].input)
        /\ PeakOf(log[k].out) <= NextUp(log[k].args.peak)
        /\ PeakOf(log[k].input) <= log[k].args.peak => log[k].out = log[k].input

\* C2 witness: a buffer louder than peak was scaled down and its result
\* overshoots peak by one rounding step.
C2_Witness ==
    \E k \in DOMAIN log :
        /\ NormalizeCase(log[k])
        /\ PeakOf(log[k].input) > log[k].args.peak
        /\ log[k].err = "none"
        /\ PeakOf(log[k].out) = NextUp(log[k].args.peak)

\* C3: trim_silence returns a prefix of its input, removes only whole
\* trailing blocks of chunk samples that are all below threshold in
\* magnitude, stops when the length is at most chunk or the trailing block
\* is not silent, and applied to its own result returns it unchanged.
C3_TrimWholeSilentChunks ==
    \A k \in DOMAIN log : log[k].fn = "trim_silence" =>
        LET e  == log[k]
            th == e.args.threshold
            ch == e.args.chunk
        IN  /\ e.err = "none"
            /\ IsPrefix(e.out, e.input)
            /\ (Len(e.input) - Len(e.out)) % ch = 0
            /\ \A i \in (Len(e.out) + 1)..Len(e.input) : Abs(e.input[i]) < th
            /\ \/ Len(e.out) <= ch
               \/ \E i \in (Len(e.out) - ch + 1)..Len(e.out) : Abs(e.out[i]) >= th
            /\ Len(e.out) < Len(e.input) => Len(e.out) > 0
            /\ (k = 2 /\ e.input = log[1].out /\ e.args = log[1].args) => e.out = log[1].out

\* C3 witness: a first application removed at least one block, and the
\* second application has run.
C3_Witness ==
    /\ Len(log) = 2
    /\ log[1].fn = "trim_silence"
    /\ log[2].fn = "trim_silence"
    /\ Len(log[1].out) < Len(log[1].input)
    /\ log[2].input = log[1].out

\* C4: a zero-length buffer given to normalize, trim_silence or fade_out is
\* rejected with an EmptyBufferError.
C4_EmptyBufferRejected ==
    \A k \in DOMAIN log :
        (log[k].fn \in {"normalize", "trim_silence", "fade_out"} /\ Len(log[k].input) = 0)
            => log[k].err = "EmptyBufferError"

\* C8: to_int16 is monotonic and saturating: each sample is clamped to
\* [-1, 1], multiplied by 32767 and truncated toward zero; inputs above 1.0
\* give 32767, inputs below -1.0 give -32767, all outputs lie in
\* [-32767, 32767].
C8_ToInt16MonotonicSaturating ==
    \A k \in DOMAIN log : log[k].fn = "to_int16" =>
        LET x == log[k].input
            y == log[k].out
        IN  /\ log[k].err = "none"
            /\ Len(y) = Len(x)
            /\ \A i, j \in 1..Len(x) : x[i] <= x[j] => y[i] <= y[j]
            /\ \A i \in 1..Len(x) :
                  LET c == Max(-One, Min(One, x[i]))
                  IN  /\ x[i] > One => y[i] = 32767
                      /\ x[i] < -One => y[i] = -32767
                      /\ -32767 <= y[i] /\ y[i] <= 32767
                      /\ (y[i] < 0 => c < 0) /\ (y[i] > 0 => c > 0)
                      /\ Abs(y[i]) * One <= Abs(c) * 32767
                      /\ Abs(c) * 32767 < (Abs(y[i]) + 1) * One

\* C8 witness: one buffer with a sample above 1.0, one below -1.0 and one
\* whose scaled value has a fractional part was converted.
C8_Witness ==
    \E k \in DOMAIN log :
        /\ log[k].fn = "to_int16"
        /\ \E i, j, l \in 1..Len(log[k].input) :
              /\ log[k].input[i] > One
              /\ log[k].input[j] < -One
              /\ (Abs(log[k].input[l]) * 32767) % One # 0
              /\ Abs(log[k].input[l]) < One

ReverbPair ==
    /\ Len(log) = 2
    /\ log[1].fn = "reverb"
    /\ log[2].fn = "reverb"
    /\ log[2].input = log[1].input

\* the frame delay of each tap of a reverb call
TapFrames(e) ==
    [k \in 1..Len(e.args.delays) |-> (e.args.sr * e.args.delays[k]) \div 1000]

\* the frame delays as round() would give them
TapFramesRounded(e) ==
    [k \in 1..Len(e.args.delays) |-> RoundHalfEven(e.args.sr * e.args.delays[k], 1000)]

TapAtten(e, k) == Atten(e.args.decay, e.args.delays[k], e.args.delays[1])

\* output sample j gathered from the input: the dry sample, then every tap
\* that reaches j, in the order of the list
RECURSIVE Gather(_, _, _, _, _)
Gather(acc, e, ds, j, k) ==
    IF k > Len(ds) THEN acc
    ELSE LET i == j - ds[k]
         IN  Gather(IF i >= 1 /\ i <= Len(e.input)
                    THEN FlAdd(acc, FlMul(e.input[i], TapAtten(e, k)))
                    ELSE acc,
                    e, ds, j, k + 1)

Dry(e, j) == IF j <= Len(e.input) THEN e.input[j] ELSE 0

\* the sum of the magnitudes of the terms that make output sample j
RECURSIVE Mass(_, _, _, _, _)
Mass(acc, e, ds, j, k) ==
    IF k > Len(ds) THEN acc
    ELSE LET i == j - ds[k]
         IN  Mass(IF i >= 1 /\ i <= Len(e.input)
                  THEN acc + Abs(FlMul(e.input[i], TapAtten(e, k)))
                  ELSE acc,
                  e, ds, j, k + 1)

\* C9, as stated: reverb of the same input with the taps in any other order
\* returns the same buffer.
C9_ReverbAnyOrder ==
    ReverbPair => (log[1].err = "none" /\ log[2].err = "none" /\ log[2].out = log[1].out)

\* C9, amended: when the reordering keeps the first tap in place, the two
\* results have the same length and each sample differs by no more than
\* the rounding of its additions (one unit in the last place per tap).
C9_ReverbOrderKeepingFirst ==
    (ReverbPair /\ log[2].args.delays[1] = log[1].args.delays[1]) =>
        /\ log[1].err = "none"
        /\ log[2].err = "none"
        /\ Len(log[2].out) = Len(log[1].out)
        /\ \A j \in 1..Len(log[1].out) :
              Abs(log[2].out[j] - log[1].out[j])
                 <= Len(log[1].args.delays)
                      * Ulp(Mass(Abs(Dry(log[1], j)), log[1], TapFrames(log[1]), j, 1))

\* C9 witness: the later taps were reordered with the first kept, on an
\* input whose echoes overlap.
C9_Witness ==
    /\ ReverbPair
    /\ log[2].args.delays[1] = log[1].args.delays[1]
    /\ log[2].args.delays # log[1].args.delays
    /\ \A i \in 1..Len(log[1].input) : log[1].input[i] # 0
    /\ Len(log[1].input) = MaxLen

\* C10, as stated: taps sit at round(sr * d_ms / 1000) frames, the output
\* has len(input) + max(d) + sr * tail_s samples, each output sample is the
\* dry sample plus the attenuated input d frames earlier for every tap
\* that reaches it, and no write falls outside the buffer.
C10_ReverbRoundedTaps ==
    \A k \in DOMAIN log : log[k].fn = "reverb" =>
        LET e  == log[k]
            ds == TapFramesRounded(e)
        IN  /\ e.err = "none"
            /\ Len(e.out) = Len(e.input) + MaxOf(ds) + (e.args.sr * e.args.tail10) \div 10
            /\ \A j \in 1..Len(e.out) : e.out[j] = Gather(Dry(e, j), e, ds, j, 1)

\* C10, amended: the same with taps at int(sr * d_ms / 1000) frames, the
\* quotient truncated, and int(sr * tail_s) frames of tail; a sample before
\* every tap's delay is the dry sample.
C10_ReverbTruncatedTaps ==
    \A k \in DOMAIN log : log[k].fn = "reverb" =>
        LET e  == log[k]
            ds == TapFrames(e)
        IN  /\ e.err = "none"
            /\ Len(e.out) = Len(e.input) + MaxOf(ds) + (e.args.sr * e.args.tail10) \div 10
            /\ \A j \in 1..Len(e.out) : e.out[j] = Gather(Dry(e, j), e, ds, j, 1)
            /\ \A j \in 1..Len(e.out) :
                  (\A t \in 1..Len(ds) : j - 1 < ds[t]) => e.out[j] = Dry(e, j)

\* C10 witness: a reverb of a full-length input in which truncation and
\* rounding place a tap differently, and an echo lands past the input.
C10_Witness ==
    \E k \in DOMAIN log :
        /\ log[k].fn = "reverb"
        /\ log[k].err = "none"
        /\ Len(log[k].input) = MaxLen
        /\ TapFrames(log[k]) # TapFramesRounded(log[k])
        /\ \E j \in (Len(log[k].input) + 1)..Len(log[k].out) : log[k].out[j] # 0

====
